---- MODULE Spec2Model ----
(***************************************************************************)
(* Model of src/libs/markdown-v2.js: the Telegram MarkdownV2 escaper       *)
(* (processMarkdownV2Safe) and the chunker (chunkForTelegram).             *)
(*                                                                         *)
(* A JavaScript string is a sequence of one-character strings.  The two    *)
(* placeholder brackets U+27EC and U+27ED and the ellipsis U+2026 are one  *)
(* UTF-16 code unit each and are written "PHO", "PHC" and "ELLIPSIS"; the   *)
(* backtick is written "BACKTICK".                                         *)
(***************************************************************************)
EXTENDS Integers, Sequences, FiniteSets

VARIABLES
    text,        \* chunkForTelegram: argument text
    maxLen,      \* chunkForTelegram: argument maxLen
    parts,       \* chunkForTelegram: the local array parts, after the loops
    result,      \* chunkForTelegram: the returned array
    pc,          \* chunkForTelegram: "idle" | "call" | "packed" | "done" | "threw"
    inputText,   \* processMarkdownV2Safe: argument inputText
    md,          \* processMarkdownV2Safe: the local variable text
    placeholders,\* processMarkdownV2Safe: the local table of spans
    out,         \* processMarkdownV2Safe: the returned string
    mpc          \* processMarkdownV2Safe: position in the function

vars == <<text, maxLen, parts, result, pc, inputText, md, placeholders, out, mpc>>
chunkVars == <<text, maxLen, parts, result, pc>>
mdVars == <<inputText, md, placeholders, out, mpc>>

\* ------------------------------------------------------------------------
\* Program constants
\* ------------------------------------------------------------------------
MAX_TELEGRAM == 4096
SAFE_BUDGET == 4000

\* ------------------------------------------------------------------------
\* Bounds of the model
\* ------------------------------------------------------------------------
\* Longest text enumerated character by character.
MaxTextLen == 4
\* Largest small maxLen tried (the smallest is -1).
MaxSmallLen == 3
\* Longest shape of a long text.  A long text is its shape with each "a"
\* repeated BigRun times (a word under every long maxLen) and each "b"
\* repeated LongRun times (a word over MAX_TELEGRAM).
MaxShapeLen == 3
BigRun == 3000
LongRun == 5000

\* ------------------------------------------------------------------------
\* Character classes and small helpers
\* ------------------------------------------------------------------------
\* \s of a JavaScript regular expression, on the characters of the model.
IsWs(c) == c = " " \/ c = "\n" \/ c = "\t" \/ c = "\r"
\* What "." of a regular expression (no s flag) does not match.
IsLineTerm(c) == c = "\n" \/ c = "\r"
\* [.!?...] of the sentence splitter.
IsSentenceEnd(c) == c = "." \/ c = "!" \/ c = "?" \/ c = "ELLIPSIS"
\* The classes as sets of characters.
WsClass == {" ", "\n", "\t", "\r"}
NewlineClass == {"\n"}
HashClass == {"#"}

Min(a, b) == IF a <= b THEN a ELSE b

\* The least element of a non-empty set of integers.
Least(S) == CHOOSE x \in S : \A y \in S : x <= y

\* The last position of the maximal run of characters of a class that
\* starts at position i of t (t[i] is of the class).
RunEnd(t, i, class) ==
    CHOOSE j \in i..Len(t) :
        /\ \A k \in i..j : t[k] \in class
        /\ (j = Len(t) \/ t[j + 1] \notin class)

\* The first positions of the maximal runs of a class in t.
RunStarts(t, class) ==
    {i \in 1..Len(t) : t[i] \in class /\ (i = 1 \/ t[i - 1] \notin class)}

\* String.prototype.split on a regular expression whose matches start at
\* the positions S and end at the positions end[s]: the pieces between the
\* matches, from position `from' on.
RECURSIVE SplitFrom(_, _, _, _)
SplitFrom(t, from, S, end) ==
    LET later == {s \in S : s >= from}
    IN  IF later = {}
        THEN <<SubSeq(t, from, Len(t))>>
        ELSE LET s == Least(later)
             IN  <<SubSeq(t, from, s - 1)>> \o SplitFrom(t, end[s] + 1, S, end)

\* The pieces of t between the runs of a class that start at the positions S.
SplitOnRuns(t, S, class) == SplitFrom(t, 1, S, [s \in S |-> RunEnd(t, s, class)])

\* text.split(/\n{2,}/)
SplitParagraphs(t) ==
    SplitOnRuns(t, {i \in RunStarts(t, NewlineClass) : RunEnd(t, i, NewlineClass) > i},
                NewlineClass)

\* p.split(/(?<=[.!?...])\s+(?=[^\s])/u): a whitespace run is a separator
\* when a sentence-ending character precedes it and a character follows it.
SplitSentences(p) ==
    SplitOnRuns(p,
                {i \in RunStarts(p, WsClass) :
                    /\ i > 1
                    /\ IsSentenceEnd(p[i - 1])
                    /\ RunEnd(p, i, WsClass) < Len(p)},
                WsClass)

\* s.split(/\s+/)
SplitWords(s) == SplitOnRuns(s, RunStarts(s, WsClass), WsClass)

\* new RegExp(`.{1,${width}}`, 'g') is a syntax error when the quantifier's
\* numbers are out of order, which is width = 0.
RegExpThrows(width) == width = 0

\* s.match(new RegExp(`.{1,${width}}`, 'g')) || [] from position pos on.
\* For width >= 1 the matches are, left to right, the longest runs of at
\* most width characters that "." matches.  For width < 0 the braces are no
\* quantifier and stand for themselves: the pattern needs a "{" in s, which
\* no text of the model holds, so nothing matches.
RECURSIVE MatchDotFrom(_, _, _)
MatchDotFrom(s, pos, width) ==
    IF pos > Len(s) \/ width < 1 THEN <<>>
    ELSE IF IsLineTerm(s[pos]) THEN MatchDotFrom(s, pos + 1, width)
    ELSE LET lim == Min(pos + width - 1, Len(s))
             stops == {k \in pos..lim : IsLineTerm(s[k])}
             e == IF stops = {} THEN lim ELSE Least(stops) - 1
         IN  <<SubSeq(s, pos, e)>> \o MatchDotFrom(s, e + 1, width)

\* Mutant: the pieces are one character too wide.
MatchDot_OneTooWide(s, width) == MatchDotFrom(s, 1, width + 1)

MatchDot(s, width) == MatchDotFrom(s, 1, width)

\* `if (buf) parts.push(buf)': the empty string is falsy.
PushIf(ps, buf) == IF buf # <<>> THEN Append(ps, buf) ELSE ps

\* Mutant: the candidate forgets the buffer it extends.
Candidate_DropsBuffer(buf, sep, unit) == unit

\* `buf ? buf + sep + unit : unit'
Candidate(buf, sep, unit) == IF buf # <<>> THEN buf \o sep \o unit ELSE unit

\* 3) Word-level packing: the loop over words from index i on, and the push
\* of wBuf after it.  The value is the array parts and whether the
\* construction of the hard-slice pattern threw.
RECURSIVE PackWords(_, _, _, _, _)
PackWords(words, i, ps, wBuf, n) ==
    IF i > Len(words) THEN [parts |-> PushIf(ps, wBuf), threw |-> FALSE]
    ELSE LET w == words[i]
             wCandidate == Candidate(wBuf, <<" ">>, w)
         IN  IF Len(wCandidate) <= n THEN PackWords(words, i + 1, ps, wCandidate, n)
             ELSE IF Len(w) <= n THEN PackWords(words, i + 1, PushIf(ps, wBuf), w, n)
             ELSE IF RegExpThrows(n) THEN [parts |-> PushIf(ps, wBuf), threw |-> TRUE]
             ELSE PackWords(words, i + 1, PushIf(ps, wBuf) \o MatchDot(w, n), <<>>, n)

\* 2) Sentence-level packing: the loop over sentences from index i on, and
\* the push of sBuf after it.
RECURSIVE PackSentences(_, _, _, _, _)
PackSentences(sentences, i, ps, sBuf, n) ==
    IF i > Len(sentences) THEN [parts |-> PushIf(ps, sBuf), threw |-> FALSE]
    ELSE LET s == sentences[i]
             sCandidate == Candidate(sBuf, <<" ">>, s)
         IN  IF Len(sCandidate) <= n THEN PackSentences(sentences, i + 1, ps, sCandidate, n)
             ELSE IF Len(s) <= n THEN PackSentences(sentences, i + 1, PushIf(ps, sBuf), s, n)
             ELSE LET w == PackWords(SplitWords(s), 1, PushIf(ps, sBuf), <<>>, n)
                  IN  IF w.threw THEN w
                      ELSE PackSentences(sentences, i + 1, w.parts, <<>>, n)

\* 1) Paragraph-level packing: the loop over paragraphs from index i on, and
\* the push of buffer after it.
RECURSIVE PackParagraphs(_, _, _, _, _)
PackParagraphs(paragraphs, i, ps, buffer, n) ==
    IF i > Len(paragraphs) THEN [parts |-> PushIf(ps, buffer), threw |-> FALSE]
    ELSE LET p == paragraphs[i]
             candidate == Candidate(buffer, <<"\n", "\n">>, p)
         IN  IF Len(candidate) <= n THEN PackParagraphs(paragraphs, i + 1, ps, candidate, n)
             ELSE IF Len(p) <= n THEN PackParagraphs(paragraphs, i + 1, PushIf(ps, buffer), p, n)
             ELSE LET s == PackSentences(SplitSentences(p), 1, PushIf(ps, buffer), <<>>, n)
                  IN  IF s.threw THEN s
                      ELSE PackParagraphs(paragraphs, i + 1, s.parts, <<>>, n)

\* The body of chunkForTelegram between the early return and the final pass.
Pack(t, n) == PackParagraphs(SplitParagraphs(t), 1, <<>>, <<>>, n)

\* The callback of the final flatMap.
SafetyPieces(part) ==
    IF Len(part) <= MAX_TELEGRAM THEN <<part>> ELSE MatchDot(part, SAFE_BUDGET)

\* parts.flatMap(...) from index i on.
RECURSIVE FlatMapFrom(_, _)
FlatMapFrom(ps, i) ==
    IF i > Len(ps) THEN <<>> ELSE SafetyPieces(ps[i]) \o FlatMapFrom(ps, i + 1)

SafetyPass(ps) == FlatMapFrom(ps, 1)

\* `!text || text.length <= maxLen'
FitsWhole(t, n) == t = <<>> \/ Len(t) <= n

\* ------------------------------------------------------------------------
\* Inputs of chunkForTelegram
\* ------------------------------------------------------------------------
ChunkAlphabet == {"a", "b", ".", " ", "\n"}
ShapeAlphabet == {"a", "b", ".", " ", "\n"}

\* All strings over A of length at most n.
StringsUpTo(A, n) == UNION {[1..k -> A] : k \in 0..n}

\* The long text of a shape, from position i of the shape on.
RECURSIVE Expand(_, _)
Expand(shape, i) ==
    IF i > Len(shape) THEN <<>>
    ELSE (IF shape[i] = "a" THEN [k \in 1..BigRun |-> "a"]
          ELSE IF shape[i] = "b" THEN [k \in 1..LongRun |-> "b"]
          ELSE <<shape[i]>>)
         \o Expand(shape, i + 1)

SmallLens == (-1)..MaxSmallLen
BigLens == {SAFE_BUDGET, MAX_TELEGRAM + 1, 2 * MAX_TELEGRAM}

MdIdle ==
    /\ inputText = <<>>
    /\ md = <<>>
    /\ placeholders = [links |-> <<>>, bolds |-> <<>>, italics |-> <<>>, spoilers |-> <<>>]
    /\ out = <<>>
    /\ mpc = "idle"

InitChunk ==
    /\ \/ /\ text \in StringsUpTo(ChunkAlphabet, MaxTextLen)
          /\ maxLen \in SmallLens
       \/ /\ \E shape \in StringsUpTo(ShapeAlphabet, MaxShapeLen) : text = Expand(shape, 1)
          /\ maxLen \in BigLens
    /\ parts = <<>>
    /\ result = <<>>
    /\ pc = "call"
    /\ MdIdle

\* ------------------------------------------------------------------------
\* chunkForTelegram, step by step
\* ------------------------------------------------------------------------
\* if (!text || text.length <= maxLen) return [text || ''];
ChunkEarlyReturn ==
    /\ pc = "call"
    /\ FitsWhole(text, maxLen)
    /\ result' = <<text>>
    /\ pc' = "done"
    /\ UNCHANGED <<text, maxLen, parts, mdVars>>

\* The three nested packing loops: they run to their end, or new RegExp
\* throws inside the word loop and the exception leaves the function.
ChunkPack ==
    /\ pc = "call"
    /\ ~FitsWhole(text, maxLen)
    /\ LET r == Pack(text, maxLen)
       IN  IF r.threw
           THEN pc' = "threw" /\ parts' = parts
           ELSE pc' = "packed" /\ parts' = r.parts
    /\ UNCHANGED <<text, maxLen, result, mdVars>>

\* return parts.flatMap(...)
ChunkSafetyPass ==
    /\ pc = "packed"
    /\ result' = SafetyPass(parts)
    /\ pc' = "done"
    /\ UNCHANGED <<text, maxLen, parts, mdVars>>

NextChunk == ChunkEarlyReturn \/ ChunkPack \/ ChunkSafetyPass

SpecChunk == InitChunk /\ [][NextChunk]_vars

\* ========================================================================
\* processMarkdownV2Safe
\* ========================================================================
Reserved ==
    {"\\", "_", "*", "[", "]", "(", ")", "~", "BACKTICK", ">", "#", "+", "-", "=", "|",
     "{", "}", ".", "!"}

\* t.replace(/[class]/g, '\\$&') from position i on: a backslash before
\* every character of the class.
RECURSIVE EscapeClassFrom(_, _, _)
EscapeClassFrom(t, i, class) ==
    IF i > Len(t) THEN <<>>
    ELSE (IF t[i] \in class THEN <<"\\", t[i]>> ELSE <<t[i]>>)
         \o EscapeClassFrom(t, i + 1, class)

\* Mutant: the class of reserved characters lacks the full stop.
escapeMarkdownV2_MissesDot(t) ==
    IF t = <<>> THEN <<>> ELSE EscapeClassFrom(t, 1, Reserved \ {"."})

escapeMarkdownV2(t) == IF t = <<>> THEN <<>> ELSE EscapeClassFrom(t, 1, Reserved)

escapeForUrl(u) == EscapeClassFrom(u, 1, {")", "\\"})

\* d stands at position i of t.
StartsWith(t, i, d) ==
    /\ i >= 1
    /\ i + Len(d) - 1 <= Len(t)
    /\ SubSeq(t, i, i + Len(d) - 1) = d

\* String.prototype.trim
Trim(t) ==
    LET keep == {i \in 1..Len(t) : ~IsWs(t[i])}
    IN  IF keep = {} THEN <<>>
        ELSE SubSeq(t, Least(keep), CHOOSE x \in keep : \A y \in keep : y <= x)

Letters ==
    {"a", "b", "c", "d", "e", "f", "g", "h", "i", "j", "k", "l", "m", "n", "o", "p",
     "q", "r", "s", "t", "u", "v", "w", "x", "y", "z"}
DigitChars == <<"0", "1", "2", "3", "4", "5", "6", "7", "8", "9">>
IsDigit(c) == \E k \in 1..Len(DigitChars) : DigitChars[k] = c

HttpsPrefix == <<"h", "t", "t", "p", "s", ":", "/", "/">>
IsHostChar(c) == c \in Letters \/ IsDigit(c) \/ c = "." \/ c = "-"

\* new URL(raw).toString(), on the strings the model builds.  The value is
\* <<href>> when the parse succeeds and <<>> when it throws.
\*  - "https://" and a host of host characters, then nothing or a path:
\*    the href is the input, with "/" added when there is no path (a port,
\*    a query or a fragment after the host is in no url of the model);
\*  - a scheme that is none of the special ones (a letter, then letters,
\*    digits, "+", "-" or ".", then ":"): the rest is an opaque path and the
\*    href is the input with its tabs and newlines removed;
\*  - anything else has no scheme and throws.
ParseUrl(raw) ==
    LET colons == {i \in 1..Len(raw) : raw[i] = ":"}
        c == Least(colons)
        scheme == SubSeq(raw, 1, c - 1)
        IsSchemeChar(x) == x \in Letters \/ IsDigit(x) \/ x \in {"+", "-", "."}
        NotTabNewline(x) == ~(x = "\n" \/ x = "\r" \/ x = "\t")
    IN  IF StartsWith(raw, 1, HttpsPrefix)
        THEN LET rest == SubSeq(raw, Len(HttpsPrefix) + 1, Len(raw))
                 ends == {i \in 1..Len(rest) : ~IsHostChar(rest[i])}
             IN  IF rest = <<>> \/ ~IsHostChar(rest[1]) THEN <<>>
                 ELSE IF ends = {} THEN <<raw \o <<"/">>>>
                 ELSE IF rest[Least(ends)] = "/" THEN <<raw>>
                 ELSE <<>>
        ELSE IF /\ colons # {}
                /\ c > 1
                /\ scheme[1] \in Letters
                /\ \A i \in 1..Len(scheme) : IsSchemeChar(scheme[i])
        THEN <<SelectSeq(raw, NotTabNewline)>>
        ELSE <<>>

\* /^[a-z0-9.-]+\.[a-z]{2,}([/:?#].*)?$/i.test(raw)
\* (the texts of the model hold lower-case letters only in their urls)
DomainLike(raw) ==
    \E dot \in 2..Len(raw) : \E last \in (dot + 2)..Len(raw) :
        /\ raw[dot] = "."
        /\ \A i \in 1..(dot - 1) : IsHostChar(raw[i])
        /\ \A i \in (dot + 1)..last : raw[i] \in Letters
        /\ \/ last = Len(raw)
           \/ /\ raw[last + 1] \in {"/", ":", "?", "#"}
              /\ \A i \in (last + 2)..Len(raw) : ~IsLineTerm(raw[i])

\* The value is <<href>>, or <<>> for null.
normalizeAndValidateUrl(url) ==
    LET raw == Trim(url)
    IN  IF ParseUrl(raw) # <<>> THEN ParseUrl(raw)
        ELSE IF DomainLike(raw) THEN ParseUrl(HttpsPrefix \o raw)
        ELSE <<>>

\* The leftmost match, at or after position from, of the delimiter d, at
\* least minInner characters taken lazily, and d again:
\* /\*\*([\s\S]*?)\*\*/, /\*([\s\S]+?)\*/ and their like.  The value is
\* <<>> for no match, else <<[start, inner, end]>>.
FindDelimited(t, from, d, minInner) ==
    LET Closers(i) == {j \in (i + Len(d) + minInner)..Len(t) : StartsWith(t, j, d)}
        starts == {i \in from..Len(t) : StartsWith(t, i, d) /\ Closers(i) # {}}
    IN  IF starts = {} THEN <<>>
        ELSE LET i == Least(starts)
                 j == Least(Closers(i))
             IN  <<[start |-> i, inner |-> SubSeq(t, i + Len(d), j - 1), end |-> j + Len(d) - 1]>>

\* t.replace(/dd([\s\S]*?)dd/g, 'd$1d') for the doubled delimiter dd, from
\* position from on.
RECURSIVE HalveDelimiters(_, _, _, _)
HalveDelimiters(t, from, dd, d) ==
    LET m == FindDelimited(t, from, dd, 0)
    IN  IF m = <<>> THEN SubSeq(t, from, Len(t))
        ELSE SubSeq(t, from, m[1].start - 1) \o d \o m[1].inner \o d
             \o HalveDelimiters(t, m[1].end + 1, dd, d)

normalizeCommonMd(t) ==
    HalveDelimiters(HalveDelimiters(t, 1, <<"*", "*">>, <<"*">>), 1, <<"_", "_">>, <<"_">>)

\* The quantifier {1,6} of the heading pattern.
MaxHashes == 6

IsHash(c) == c = "#"

\* The leftmost match of /^(#{1,6})\s+(.*)$/m at or after position from: a
\* line start, a run of one to six "#", a whitespace run (it may cross
\* lines), and the rest of the line it ends on.  <<>> for no match, else
\* <<[start, title, end]>>.  The pattern is anchored by "^"; without the
\* anchor a match also starts inside a line, at the head of a run of "#".
FindHeading(t, from, anchored) ==
    LET AtLineStart(i) ==
            IF anchored THEN i = 1 \/ IsLineTerm(t[i - 1])
            ELSE i = 1 \/ ~IsHash(t[i - 1])
        HashEnd(i) == RunEnd(t, i, HashClass)
        Heads(i) ==
            /\ IsHash(t[i])
            /\ AtLineStart(i)
            /\ HashEnd(i) - i + 1 <= MaxHashes
            /\ HashEnd(i) < Len(t)
            /\ IsWs(t[HashEnd(i) + 1])
        starts == {i \in from..Len(t) : Heads(i)}
    IN  IF starts = {} THEN <<>>
        ELSE LET i == Least(starts)
                 w == RunEnd(t, HashEnd(i) + 1, WsClass)
                 stops == {k \in (w + 1)..Len(t) : IsLineTerm(t[k])}
                 e == IF stops = {} THEN Len(t) ELSE Least(stops) - 1
             IN  <<[start |-> i, title |-> SubSeq(t, w + 1, e), end |-> e]>>

\* t.replace(/^(#{1,6})\s+(.*)$/gm, ...) from position from on.
RECURSIVE HeadingsFrom(_, _, _)
HeadingsFrom(t, from, anchored) ==
    LET m == FindHeading(t, from, anchored)
    IN  IF m = <<>> THEN SubSeq(t, from, Len(t))
        ELSE SubSeq(t, from, m[1].start - 1) \o <<"*">> \o Trim(m[1].title) \o <<"*">>
             \o HeadingsFrom(t, m[1].end + 1, anchored)

\* Mutant: the pattern lacks its "^" and finds a heading anywhere in a line.
normalizeHeadings_Unanchored(t) == HeadingsFrom(t, 1, FALSE)

normalizeHeadings(t) == HeadingsFrom(t, 1, TRUE)

\* The decimal digits of idx, as the template literal writes it.
RECURSIVE Decimal(_)
Decimal(n) ==
    IF n < 10 THEN <<DigitChars[n + 1]>>
    ELSE Decimal(n \div 10) \o <<DigitChars[(n % 10) + 1]>>

\* The placeholder token of a category ("L", "B", "I", "S") and an index.
Token(tag, idx) == <<"PHO", tag>> \o Decimal(idx) \o <<"PHC">>

\* The leftmost match of /\[([^\]\n]+)\]\(([^)]+)\)/ at or after position
\* from.  <<>> for no match, else <<[start, label, url, end]>>.
FindLink(t, from) ==
    LET LabelStop(i) == {j \in (i + 1)..Len(t) : t[j] = "]" \/ t[j] = "\n"}
        UrlStop(j) == {k \in (j + 2)..Len(t) : t[k] = ")"}
        Links(i) ==
            /\ t[i] = "["
            /\ LabelStop(i) # {}
            /\ LET j == Least(LabelStop(i))
               IN  /\ t[j] = "]"
                   /\ j > i + 1
                   /\ j < Len(t)
                   /\ t[j + 1] = "("
                   /\ UrlStop(j) # {}
                   /\ Least(UrlStop(j)) > j + 2
        starts == {i \in from..Len(t) : Links(i)}
    IN  IF starts = {} THEN <<>>
        ELSE LET i == Least(starts)
                 j == Least(LabelStop(i))
                 k == Least(UrlStop(j))
             IN  <<[start |-> i, label |-> SubSeq(t, i + 1, j - 1),
                    url |-> SubSeq(t, j + 2, k - 1), end |-> k]>>

\* The link replace with its callback, from position from on: the new text
\* and the array placeholders.links.
RECURSIVE ExtractLinks(_, _, _)
ExtractLinks(t, from, links) ==
    LET m == FindLink(t, from)
    IN  IF m = <<>> THEN [text |-> SubSeq(t, from, Len(t)), table |-> links]
        ELSE LET normalizedUrl == normalizeAndValidateUrl(m[1].url)
                 safeLabel == escapeMarkdownV2(m[1].label)
                 before == SubSeq(t, from, m[1].start - 1)
             IN  IF normalizedUrl = <<>>
                 THEN LET r == ExtractLinks(t, m[1].end + 1, links)
                      IN  [text |-> before \o safeLabel \o r.text, table |-> r.table]
                 ELSE LET span == <<"[">> \o safeLabel \o <<"]", "(">>
                                  \o escapeForUrl(normalizedUrl[1]) \o <<")">>
                          r == ExtractLinks(t, m[1].end + 1, Append(links, span))
                      IN  [text |-> before \o Token("L", Len(links)) \o r.text,
                           table |-> r.table]

\* The bold, italic and spoiler replaces with their callbacks, for the
\* delimiter d and the category tag, from position from on.
RECURSIVE ExtractSpans(_, _, _, _, _)
ExtractSpans(t, from, d, tag, table) ==
    LET m == FindDelimited(t, from, d, 1)
    IN  IF m = <<>> THEN [text |-> SubSeq(t, from, Len(t)), table |-> table]
        ELSE LET span == d \o escapeMarkdownV2(m[1].inner) \o d
                 r == ExtractSpans(t, m[1].end + 1, d, tag, Append(table, span))
             IN  [text |-> SubSeq(t, from, m[1].start - 1) \o Token(tag, Len(table)) \o r.text,
                  table |-> r.table]

\* text.replace(token, span) with a string pattern: the first occurrence.
\* No text of the model holds a "$", so the span is inserted as it is.
ReplaceFirst(t, token, span) ==
    LET at == {i \in 1..Len(t) : StartsWith(t, i, token)}
    IN  IF at = {} THEN t
        ELSE SubSeq(t, 1, Least(at) - 1) \o span
             \o SubSeq(t, Least(at) + Len(token), Len(t))

\* table.forEach((md, i) => { text = text.replace(token(i), md); }) from
\* index i (counted from 1) on.
RECURSIVE RestoreFrom(_, _, _, _)
RestoreFrom(t, tag, table, i) ==
    IF i > Len(table) THEN t
    ELSE RestoreFrom(ReplaceFirst(t, Token(tag, i - 1), table[i]), tag, table, i + 1)

RestoreAll(t, ph) ==
    RestoreFrom(RestoreFrom(RestoreFrom(RestoreFrom(t, "L", ph.links, 1),
                                        "B", ph.bolds, 1),
                            "I", ph.italics, 1),
                "S", ph.spoilers, 1)

\* ------------------------------------------------------------------------
\* Inputs of processMarkdownV2Safe
\* ------------------------------------------------------------------------
\* Longest input, counted in pieces.
MaxPieces == 3

\* The pieces an input is put together from: plain characters, stray
\* delimiters and reserved characters, a link with a domain-like url, a
\* link whose url parses neither way, and whole bold and italic spans.
Pieces ==
    {<<"a">>,
     <<" ">>,
     <<"\n">>,
     <<"*">>,
     <<"_">>,
     <<"|", "|">>,
     <<".">>,
     <<"\\">>,
     <<"#">>,
     <<")">>,
     <<"[", "a", ".", "b", "]", "(", "b", ".", "i", "o", ")">>,
     <<"[", "a", ".", "b", "]", "(", "x", " ", "y", ")">>,
     <<"*", "a", "*">>,
     <<"_", "a", "_">>,
     <<"*", "*">>}

\* '**bold** and _ital_ and # Heading'
InputC10 ==
    <<"*", "*", "b", "o", "l", "d", "*", "*", " ", "a", "n", "d", " ", "_",
    "i", "t", "a", "l", "_", " ", "a", "n", "d", " ", "#", " ", "H", "e", "a",
    "d", "i", "n", "g">>

\* '[text](not a url)'
InputNotAUrl ==
    <<"[", "t", "e", "x", "t", "]", "(", "n", "o", "t", " ", "a", " ", "u",
    "r", "l", ")">>

\* 'see [a_b](a:b)!'
InputAbsoluteLink ==
    <<"s", "e", "e", " ", "[", "a", "_", "b", "]", "(", "a", ":", "b", ")",
    "!">>

\* '__a__ ||a.b||'
InputDoubleUnderscore ==
    <<"_", "_", "a", "_", "_", " ", "|", "|", "a", ".", "b", "|", "|">>

\* '## a.b \n#a\n# *a*'
InputHeadingLines ==
    <<"#", "#", " ", "a", ".", "b", " ", "\n", "#", "a", "\n", "#", " ", "*",
    "a", "*">>

\* 'PHO B0 PHC*a*'
InputLiteralToken ==
    <<"PHO", "B", "0", "PHC", "*", "a", "*">>

ExtraInputs ==
    {InputC10, InputNotAUrl, InputAbsoluteLink, InputDoubleUnderscore,
     InputHeadingLines, InputLiteralToken}

\* The concatenations of at most k pieces.
RECURSIVE Compose(_)
Compose(k) ==
    IF k = 0 THEN {<<>>}
    ELSE Compose(k - 1) \cup {s \o p : s \in Compose(k - 1), p \in Pieces}

MdInputs == Compose(MaxPieces) \cup ExtraInputs

NoPlaceholders == [links |-> <<>>, bolds |-> <<>>, italics |-> <<>>, spoilers |-> <<>>]

ChunkIdle ==
    /\ text = <<>>
    /\ maxLen = SAFE_BUDGET
    /\ parts = <<>>
    /\ result = <<>>
    /\ pc = "idle"

InitMd ==
    /\ inputText \in MdInputs
    /\ md = <<>>
    /\ placeholders = NoPlaceholders
    /\ out = <<>>
    /\ mpc = "call"
    /\ ChunkIdle

\* ------------------------------------------------------------------------
\* processMarkdownV2Safe, step by step
\* ------------------------------------------------------------------------
\* if (!inputText) return '';
MdReturnEmpty ==
    /\ mpc = "call"
    /\ inputText = <<>>
    /\ out' = <<>>
    /\ mpc' = "done"
    /\ UNCHANGED <<inputText, md, placeholders, chunkVars>>

\* text = normalizeHeadings(normalizeCommonMd(String(inputText)))
MdNormalize ==
    /\ mpc = "call"
    /\ inputText # <<>>
    /\ md' = normalizeHeadings(normalizeCommonMd(inputText))
    /\ mpc' = "normalized"
    /\ UNCHANGED <<inputText, placeholders, out, chunkVars>>

MdExtractLinks ==
    /\ mpc = "normalized"
    /\ LET r == ExtractLinks(md, 1, placeholders.links)
       IN  /\ md' = r.text
           /\ placeholders' = [placeholders EXCEPT !.links = r.table]
    /\ mpc' = "links"
    /\ UNCHANGED <<inputText, out, chunkVars>>

MdExtractBold ==
    /\ mpc = "links"
    /\ LET r == ExtractSpans(md, 1, <<"*">>, "B", placeholders.bolds)
       IN  /\ md' = r.text
           /\ placeholders' = [placeholders EXCEPT !.bolds = r.table]
    /\ mpc' = "bold"
    /\ UNCHANGED <<inputText, out, chunkVars>>

MdExtractItalic ==
    /\ mpc = "bold"
    /\ LET r == ExtractSpans(md, 1, <<"_">>, "I", placeholders.italics)
       IN  /\ md' = r.text
           /\ placeholders' = [placeholders EXCEPT !.italics = r.table]
    /\ mpc' = "italic"
    /\ UNCHANGED <<inputText, out, chunkVars>>

MdExtractSpoilers ==
    /\ mpc = "italic"
    /\ LET r == ExtractSpans(md, 1, <<"|", "|">>, "S", placeholders.spoilers)
       IN  /\ md' = r.text
           /\ placeholders' = [placeholders EXCEPT !.spoilers = r.table]
    /\ mpc' = "spoilers"
    /\ UNCHANGED <<inputText, out, chunkVars>>

\* text = escapeMarkdownV2(text)
MdEscape ==
    /\ mpc = "spoilers"
    /\ md' = escapeMarkdownV2(md)
    /\ mpc' = "escaped"
    /\ UNCHANGED <<inputText, placeholders, out, chunkVars>>

\* The four forEach loops, and return text.
MdRestore ==
    /\ mpc = "escaped"
    /\ md' = RestoreAll(md, placeholders)
    /\ out' = RestoreAll(md, placeholders)
    /\ mpc' = "done"
    /\ UNCHANGED <<inputText, placeholders, chunkVars>>

NextMd ==
    \/ MdReturnEmpty
    \/ MdNormalize
    \/ MdExtractLinks
    \/ MdExtractBold
    \/ MdExtractItalic
    \/ MdExtractSpoilers
    \/ MdEscape
    \/ MdRestore

SpecMd == InitMd /\ [][NextMd]_vars

\* ------------------------------------------------------------------------
\* Properties of chunkForTelegram (checked under SpecChunk)
\* ------------------------------------------------------------------------
Returned == pc = "done"

\* chunks.join('')
RECURSIVE JoinFrom(_, _)
JoinFrom(ps, i) == IF i > Len(ps) THEN <<>> ELSE ps[i] \o JoinFrom(ps, i + 1)

NotWs(c) == ~IsWs(c)
StripWs(s) == SelectSeq(s, NotWs)

\* w occurs in c as a contiguous substring.
Occurs(w, c) ==
    \E o \in 1..(Len(c) - Len(w) + 1) : \A k \in 1..Len(w) : c[o + k - 1] = w[k]

\* C1: whatever maxLen is, every returned chunk is at most MAX_TELEGRAM
\* characters long, the early single-chunk return included.
C1_ChunksWithinHardCap ==
    Returned => \A i \in 1..Len(result) : Len(result[i]) <= MAX_TELEGRAM

\* C2: for maxLen >= 1 every returned chunk is at most maxLen characters
\* long, whichever level produced it.
C2_ChunksWithinMaxLen ==
    (Returned /\ maxLen >= 1) => \A i \in 1..Len(result) : Len(result[i]) <= maxLen

\* A call that hard-sliced: an over-budget text came back as three or more
\* chunks, one of them exactly maxLen long.
C2_Witness ==
    /\ Returned
    /\ maxLen >= 1
    /\ Len(text) > maxLen
    /\ Len(result) >= 3
    /\ \E i \in 1..Len(result) : Len(result[i]) = maxLen

\* C3: for maxLen >= 1 the returned sequence is never empty.
C3_AtLeastOneChunk ==
    (Returned /\ maxLen >= 1) => Len(result) >= 1

\* C4: the call never raises, for any text and any integer maxLen.
C4_NeverRaises == pc # "threw"

\* C5: for maxLen >= 1 every maximal run of non-whitespace characters of
\* the input that is at most maxLen long lies whole inside one chunk.  (The
\* runs are the non-empty pieces between the whitespace runs of the input.)
C5_WordsNotBroken ==
    (Returned /\ maxLen >= 1) =>
        LET runs == SplitWords(text)
        IN  \A r \in 1..Len(runs) :
                (runs[r] # <<>> /\ Len(runs[r]) <= maxLen) =>
                    \E i \in 1..Len(result) : Occurs(runs[r], result[i])

\* C6: for maxLen >= 1 the chunks in order, whitespace deleted, are the
\* input with its whitespace deleted.
C6_ContentPreserved ==
    (Returned /\ maxLen >= 1) => StripWs(JoinFrom(result, 1)) = StripWs(text)

\* A call that split an input of two different characters and whitespace
\* into three or more chunks.
C6_Witness ==
    /\ Returned
    /\ maxLen >= 1
    /\ Len(result) >= 3
    /\ StripWs(text) # text
    /\ \E i, j \in 1..Len(text) : NotWs(text[i]) /\ NotWs(text[j]) /\ text[i] # text[j]

\* ------------------------------------------------------------------------
\* Properties of processMarkdownV2Safe (checked under SpecMd)
\* ------------------------------------------------------------------------
MdReturned == mpc = "done"

HasPlaceholderChar(t) == \E i \in 1..Len(t) : t[i] = "PHO" \/ t[i] = "PHC"

Range(f) == {f[i] : i \in 1..Len(f)}

\* The spans stored in the table.
StoredSpans(ph) ==
    Range(ph.links) \cup Range(ph.bolds) \cup Range(ph.italics) \cup Range(ph.spoilers)

\* C7: an input without placeholder brackets leaves no placeholder token in
\* the output, and every stored span is in the output.
C7_PlaceholdersConsumed ==
    (MdReturned /\ ~HasPlaceholderChar(inputText)) =>
        /\ ~HasPlaceholderChar(out)
        /\ \A sp \in StoredSpans(placeholders) : Occurs(sp, out)

\* Position i of t lies inside an occurrence of one of the spans.
Covered(t, i, spans) ==
    \E sp \in spans : \E o \in (i - Len(sp) + 1)..i : StartsWith(t, o, sp)

\* From position i on, outside the occurrences of the spans: every backslash
\* escapes the character after it and every other character is not reserved.
RECURSIVE PlainEscapedFrom(_, _, _)
PlainEscapedFrom(t, i, spans) ==
    IF i > Len(t) THEN TRUE
    ELSE IF Covered(t, i, spans) THEN PlainEscapedFrom(t, i + 1, spans)
    ELSE IF t[i] = "\\"
    THEN /\ i < Len(t)
         /\ ~Covered(t, i + 1, spans)
         /\ PlainEscapedFrom(t, i + 2, spans)
    ELSE /\ t[i] \notin Reserved
         /\ PlainEscapedFrom(t, i + 1, spans)

\* C8: in the output every reserved character outside the restored markup
\* spans is escaped by a backslash (it follows an odd run of backslashes).
C8_ReservedEscaped ==
    MdReturned => PlainEscapedFrom(out, 1, StoredSpans(placeholders))

\* A call that stored a bold span and escaped a reserved character outside
\* every span.
C8_Witness ==
    /\ MdReturned
    /\ placeholders.bolds # <<>>
    /\ \E i \in 1..(Len(out) - 1) :
          /\ out[i] = "\\"
          /\ out[i + 1] \in Reserved
          /\ ~Covered(out, i, StoredSpans(placeholders))
          /\ ~Covered(out, i + 1, StoredSpans(placeholders))

\* No reserved character and no placeholder bracket.
IsPlain(t) == \A i \in 1..Len(t) : t[i] \notin Reserved /\ t[i] # "PHO" /\ t[i] # "PHC"

\* C9: an input that is plain text around one [label](url) span whose url
\* parses neither way comes out as the plain text around the label escaped
\* once.
C9_InvalidLinkLeavesEscapedLabel ==
    LET m == FindLink(inputText, 1)
        pre == SubSeq(inputText, 1, m[1].start - 1)
        post == SubSeq(inputText, m[1].end + 1, Len(inputText))
    IN  ( /\ MdReturned
          /\ m # <<>>
          /\ normalizeAndValidateUrl(m[1].url) = <<>>
          /\ IsPlain(pre)
          /\ IsPlain(post) ) =>
            out = pre \o escapeMarkdownV2(m[1].label) \o post

\* '*bold* and _ital_ and *Heading*'
OutputC10Claimed ==
    <<"*", "b", "o", "l", "d", "*", " ", "a", "n", "d", " ", "_", "i", "t",
    "a", "l", "_", " ", "a", "n", "d", " ", "*", "H", "e", "a", "d", "i", "n",
    "g", "*">>

\* '*bold* and _ital_ and \# Heading'
OutputC10Amended ==
    <<"*", "b", "o", "l", "d", "*", " ", "a", "n", "d", " ", "_", "i", "t",
    "a", "l", "_", " ", "a", "n", "d", " ", "\\", "#", " ", "H", "e", "a",
    "d", "i", "n", "g">>

\* C10 as claimed: the call on InputC10 returns the bold span, the italic span
\* and the heading as a bold span, with no escaped "#".
C10_HeadingBecomesBold ==
    (MdReturned /\ inputText = InputC10) => out = OutputC10Claimed

\* C10 as amended: the call on InputC10 returns the bold span and the italic
\* span; the "#" is not at the start of a line, so "# Heading" is no
\* heading and comes out as plain text with the "#" escaped.
C10_MidLineHashEscaped ==
    (MdReturned /\ inputText = InputC10) => out = OutputC10Amended

\* The call on InputC10 has returned.
C10_Witness ==
    /\ MdReturned
    /\ inputText = InputC10
    /\ Len(placeholders.bolds) = 1
    /\ Len(placeholders.italics) = 1

====
